---- MODULE Spec2Model ----
(***************************************************************************)
(* A state-machine model of StravaGearMonitor (src/strava_gear_monitor.py):*)
(* the maintenance ledger, the service-interval tracker, the component     *)
(* lifecycle manager and the activity sync, together with the two          *)
(* collaborators they use: the Activity Source (the paged activity feed)   *)
(* and the Record Store (the per-athlete JSON files).                      *)
(*                                                                         *)
(* Time is a counter of clock readings: two calls made while `now` has the *)
(* same value read the same datetime.now() and the same int(time.time()).  *)
(* Distances are whole kilometres held in metres, so that the code's       *)
(* `/ 1000` is exact.                                                      *)
(***************************************************************************)
EXTENDS Integers, Sequences, FiniteSets, TLC

\* ------------------------------------------------------------------ bounds
MaxTime == 1        \* clock readings 0..MaxTime of the ledgers' behaviours
MaxSyncTime == 2    \* clock readings 0..MaxSyncTime of the sync's behaviours
MaxActs == 1        \* activities the Activity Source ever holds
MaxFeed == 2        \* the same, where a snapshot is taken of a longer feed
MaxSwaps == 3       \* entries the component-swap ledger may hold
MaxLedger == 5      \* the same, where one part replaces another
MaxComps == 2       \* components the components map may hold
MaxRecords == 2     \* maintenance records the ledger may hold
MaxHistory == 3     \* the same, where the order of a longer list is followed
MaxIntervals == 1   \* service intervals the tracker may hold
MaxListed == 3      \* activities of a list handed to a pure function
MantissaBits == 11  \* significant bits of a float (scaled from 53)
PerPage == 1        \* activities per page of the feed (scaled per_page)
SlotsPerDay == 2    \* clock readings per calendar day

\* ------------------------------------------------------ values and inputs
Gears == {"g1", "g2"}
NoGear == "None"                         \* an activity without gear_id
Dists == {10000}                         \* activity distances, metres
NoDate == -1                             \* Python None where a datetime is optional
NoneId == <<>>                           \* Python None / "" where a component id is optional

\* Python values whose type matters for ==
PyStr(s) == [t |-> "str", v |-> s]
PyInt(n) == [t |-> "int", v |-> n]
PyEnum(n) == [t |-> "MaintenanceType", v |-> n]
PyNone == [t |-> "NoneType", v |-> ""]

\* Local hour and calendar date of a clock reading: the first reading of a
\* day falls at night (03h), the second in day time (12h).
HourOfSlot == <<3, 12, 21>>
Hour(t) == HourOfSlot[(t % SlotsPerDay) + 1]
Date(t) == t \div SlotsPerDay

\* str.lower() on the brand / model / item / action strings used as inputs
Lower(s) ==
    CASE s = "KMC" -> "kmc"
      [] s = "WASH" -> "wash"
      [] s = "LUBE" -> "lube"
      [] s = "Replace" -> "replace"
      [] OTHER -> s

VARIABLES
    now,                  \* the clock: datetime.now() / time.time()
    source,               \* Activity Source: the athlete's activities, latest first
    maintenance_records,  \* self.maintenance_records: gear_id -> list of records
    service_intervals,    \* self.service_intervals: gear_id -> list of intervals
    components,           \* self.components: component id -> Component
    component_swaps,      \* self.component_swaps
    sync_state,           \* self.sync_state (<<>> is None, else <<SyncState>>)
    activities_cache,     \* self.activities_cache
    maintenance_file,     \* Record Store: <user>_gear_maintenance.json
    intervals_file,       \* Record Store: <user>_service_intervals.json
    components_file,      \* Record Store: <user>_components.json
    component_swaps_file, \* Record Store: <user>_component_swaps.json
    sync_state_file,      \* Record Store: <user>_sync_state.json
    last,                 \* the call just made: operation, arguments, outcome
    gear_usage_held       \* what a caller holds of the GearUsage objects it
                          \* was last returned: gear_id -> maintenance_history

vars == <<now, source, maintenance_records, service_intervals, components,
          component_swaps, sync_state, activities_cache, maintenance_file,
          intervals_file, components_file, component_swaps_file,
          sync_state_file, last, gear_usage_held>>

maintVars == <<maintenance_records, maintenance_file, gear_usage_held>>
intervalVars == <<service_intervals, intervals_file>>
compVars == <<components, component_swaps, components_file, component_swaps_file>>
syncVars == <<sync_state, activities_cache, sync_state_file>>

\* ------------------------------------------------------------ Record Store
NoFile == [exists |-> FALSE, data |-> <<>>]
FileOf(d) == [exists |-> TRUE, data |-> d]

\* A _save_* call: json.dump of the collection. Every _save_* catches and
\* logs its own exception, so a failed write leaves the old file and the
\* caller learns nothing.
Saved(file, d, io) == IF io = "ok" THEN FileOf(d) ELSE file
IOs == {"ok", "unwritable"}

\* ---------------------------------------------------------- Activity Source
\* get_all_activities: pages of PerPage activities are fetched until an
\* empty page; a failed request breaks the loop and what was fetched so far
\* is returned. failAt = 0 means no request fails.
Min(a, b) == IF a <= b THEN a ELSE b
NumPages(acts) == (Len(acts) + PerPage - 1) \div PerPage
get_all_activities(failAt) ==
    IF failAt = 0 THEN source
    ELSE SubSeq(source, 1, Min(Len(source), (failAt - 1) * PerPage))
\* what make_authenticated_request logs when a page request fails
FetchLog(failAt) == IF failAt = 0 THEN {} ELSE {"API request failed"}
FailAts == 0 .. (IF NumPages(source) > 1 THEN NumPages(source) ELSE 1)

\* get_latest_activity: the first activity of the feed, None (<<>>) when the
\* feed is empty or the request fails.
get_latest_activity(ok) ==
    IF ok /\ Len(source) > 0 THEN <<source[1]>> ELSE <<>>

\* _get_activities_after_date: the activities after the date, [] on failure
_get_activities_after_date(date, ok) ==
    IF ok THEN LET After(a) == a.start_date > date IN SelectSeq(source, After)
    ELSE <<>>

\* ------------------------------------------------------- Usage Aggregator
\* Distances are Python floats. A float keeps MantissaBits significant bits;
\* the sum of two floats is the exact sum rounded to the nearest float, to
\* the even one on a tie.
RECURSIVE UnitOf(_, _)
UnitOf(x, u) == IF x < u * 2^MantissaBits THEN u ELSE UnitOf(x, 2 * u)

FloatRound(x) ==
    LET u == UnitOf(x, 1)
        q == x \div u
        r == x % u
    IN IF 2 * r > u \/ (2 * r = u /\ q % 2 = 1) THEN (q + 1) * u ELSE q * u

FloatAdd(a, b) == FloatRound(a + b)

\* A maintenance_history is a list object: either the very list the ledger
\* holds for the gear (shared: what is read through it is what the ledger's
\* list holds) or a list of its own, with its own content.
TheLedgersList == [shared |-> TRUE, own |-> <<>>]
AListOfItsOwn(records) == [shared |-> FALSE, own |-> records]

\* a history that is a copy: list(self.maintenance_records.get(gear_id, []))
UsageWithCopiedHistory(g) ==
    [gear_id |-> g, sport_types |-> {}, total_distance_m |-> 0,
     total_distance_km |-> 0, activities_count |-> 0,
     first_activity_date |-> NoDate, last_activity_date |-> NoDate,
     maintenance_history |->
         AListOfItsOwn(IF g \in DOMAIN maintenance_records
                       THEN maintenance_records[g] ELSE <<>>)]

\* maintenance_history=self.maintenance_records.get(gear_id, [])
EmptyUsage(g) ==
    [gear_id |-> g, sport_types |-> {}, total_distance_m |-> 0,
     total_distance_km |-> 0, activities_count |-> 0,
     first_activity_date |-> NoDate, last_activity_date |-> NoDate,
     maintenance_history |->
         IF g \in DOMAIN maintenance_records THEN TheLedgersList
         ELSE AListOfItsOwn(<<>>)]

\* dict.clear() empties the ledger's mapping, not the lists it held: a list
\* that a GearUsage shares lives on, with its records, as that GearUsage's own
LeftWithTheirLists(held) ==
    [g \in DOMAIN held |->
        IF held[g].shared THEN AListOfItsOwn(maintenance_records[g]) ELSE held[g]]

FoldActivity(gear_usage, activity) ==
    LET g == activity.gear_id IN
    IF g = NoGear THEN gear_usage
    ELSE
      LET usage == IF g \in DOMAIN gear_usage THEN gear_usage[g] ELSE EmptyUsage(g)
          m == FloatAdd(usage.total_distance_m, activity.distance)
          d == activity.start_date
          upd == [usage EXCEPT
                    !.sport_types = @ \cup {activity.sport_type},
                    !.total_distance_m = m,
                    !.total_distance_km = m \div 1000,
                    !.activities_count = @ + 1,
                    !.first_activity_date =
                        IF @ = NoDate \/ d < @ THEN d ELSE @,
                    !.last_activity_date =
                        IF @ = NoDate \/ d > @ THEN d ELSE @]
      IN [x \in (DOMAIN gear_usage) \cup {g} |->
            IF x = g THEN upd ELSE gear_usage[x]]

RECURSIVE AnalyzeFrom(_, _, _)
AnalyzeFrom(activities, i, gear_usage) ==
    IF i > Len(activities) THEN gear_usage
    ELSE AnalyzeFrom(activities, i + 1, FoldActivity(gear_usage, activities[i]))

analyze_gear_usage(activities) == AnalyzeFrom(activities, 1, <<>>)

\* the distance of every activity, whatever its gear
MileageOfAllGears(activities, g) ==
    LET gear_usage == analyze_gear_usage(activities)
        Total[gs \in SUBSET DOMAIN gear_usage] ==
            IF gs = {} THEN 0
            ELSE LET x == CHOOSE x \in gs : TRUE
                 IN gear_usage[x].total_distance_km + Total[gs \ {x}]
    IN Total[DOMAIN gear_usage]

\* gear_usage.get(gear_id, GearUsage(gear_id, set(), 0, 0, 0)).total_distance_km
CurrentMileage(activities, g) ==
    LET gear_usage == analyze_gear_usage(activities) IN
    IF g \in DOMAIN gear_usage THEN gear_usage[g].total_distance_km ELSE 0

\* -------------------------------------------- Component Lifecycle Manager
Names == {"Chain"}
Brands == {"KMC", "kmc"}
Models == {"x11"}
SwapActions == {"remove", "retire", "scrap"}

\* f"{brand.lower()}_{model.lower()}_{int(time.time())}"
ComponentId(brand, model, t) == <<Lower(brand), Lower(model), t>>
UnknownId == <<"none", "such", 0>>

\* a ledger kept newest first: self.component_swaps.insert(0, swap)
RecordedFirst(ledger, swap) == <<swap>> \o ledger

\* self.component_swaps.append(swap)
Recorded(ledger, swap) == Append(ledger, swap)

Put(f, k, v) == [x \in (DOMAIN f) \cup {k} |-> IF x = k THEN v ELSE f[x]]

add_component(name, brand, model, gear_id, failAt, io) ==
    LET component_id == ComponentId(brand, model, now)
        current_mileage == CurrentMileage(get_all_activities(failAt), gear_id)
        component == [id |-> component_id, name |-> name, brand |-> brand,
                      model |-> model, installation_date |-> now,
                      gear_id |-> gear_id, status |-> "active",
                      mileage_at_installation |-> current_mileage,
                      current_mileage |-> current_mileage]
        swap == [date |-> now, gear_id |-> gear_id,
                 component_id |-> component_id, old_component_id |-> NoneId,
                 action |-> "install", mileage |-> current_mileage]
    IN /\ Cardinality((DOMAIN components) \cup {component_id}) <= MaxComps
       /\ Len(component_swaps) < MaxSwaps
       /\ components' = Put(components, component_id, component)
       /\ component_swaps' = Recorded(component_swaps, swap)
       /\ components_file' = Saved(components_file, components', io)
       /\ component_swaps_file' = Saved(component_swaps_file, component_swaps', io)
       /\ last' = [op |-> "add_component", ret |-> component_id,
                   log |-> FetchLog(failAt)]
       /\ UNCHANGED <<now, source, maintVars, intervalVars, syncVars>>

\* a removal that never asks which bike the part is on
OnAnyBike(component, gear_id) == TRUE

\* old_component.gear_id != gear_id rejects the call
OnBike(component, gear_id) == component.gear_id = gear_id

\* limit: the entries the ledger may hold in the behaviours considered
swap_component(gear_id, old_component_id, new_component_id, action, failAt, io, limit) ==
    LET Return(r, log) == last' = [op |-> "swap_component", ret |-> r, log |-> log \cup FetchLog(failAt)]
        current_mileage == CurrentMileage(get_all_activities(failAt), gear_id)
        \* old component updated in place, removal appended
        removed == [components EXCEPT
                      ![old_component_id].status =
                          IF action = "retire" THEN "retired" ELSE "in_inventory",
                      ![old_component_id].current_mileage = current_mileage]
        removal == [date |-> now, gear_id |-> gear_id,
                    component_id |-> old_component_id,
                    old_component_id |-> NoneId, action |-> action,
                    mileage |-> current_mileage]
        installed == [removed EXCEPT
                        ![new_component_id].status = "active",
                        ![new_component_id].gear_id = gear_id,
                        ![new_component_id].installation_date = now,
                        ![new_component_id].mileage_at_installation = current_mileage,
                        ![new_component_id].current_mileage = current_mileage]
        installation == [date |-> now, gear_id |-> gear_id,
                         component_id |-> new_component_id,
                         old_component_id |-> old_component_id,
                         action |-> "install", mileage |-> current_mileage]
    IN /\ Len(component_swaps) + (IF new_component_id = NoneId THEN 1 ELSE 2) <= limit
       /\ UNCHANGED <<now, source, maintVars, intervalVars, syncVars>>
       /\ IF old_component_id \notin DOMAIN components
          THEN /\ Return(FALSE, {"Component not found"})
               /\ UNCHANGED compVars
          ELSE IF ~OnBike(components[old_component_id], gear_id)
          THEN /\ Return(FALSE, {"Component is not installed on bike"})
               /\ UNCHANGED compVars
          ELSE IF new_component_id # NoneId
          THEN IF \/ new_component_id \notin DOMAIN components
                  \/ removed[new_component_id].status # "in_inventory"
               THEN /\ Return(FALSE, IF new_component_id \notin DOMAIN components
                                     THEN {"New component not found"}
                                     ELSE {"New component is not in inventory"})
                    /\ components' = removed
                    /\ component_swaps' = Recorded(component_swaps, removal)
                    /\ UNCHANGED <<components_file, component_swaps_file>>
               ELSE /\ Return(TRUE, {})
                    /\ components' = installed
                    /\ component_swaps' =
                           Recorded(Recorded(component_swaps, removal), installation)
                    /\ components_file' = Saved(components_file, components', io)
                    /\ component_swaps_file' =
                           Saved(component_swaps_file, component_swaps', io)
          ELSE /\ Return(TRUE, {})
               /\ components' = removed
               /\ component_swaps' = Recorded(component_swaps, removal)
               /\ components_file' = Saved(components_file, components', io)
               /\ component_swaps_file' =
                      Saved(component_swaps_file, component_swaps', io)

\* _update_gear_usage: refresh current_mileage of the active components from
\* the cached activities (its own try/except; the caller sees no failure)
UpdatedComponents(comps, cache) ==
    LET gear_usage == analyze_gear_usage(cache) IN
    [id \in DOMAIN comps |->
        IF comps[id].status = "active" /\ comps[id].gear_id \in DOMAIN gear_usage
        THEN [comps[id] EXCEPT
                !.current_mileage = gear_usage[comps[id].gear_id].total_distance_km]
        ELSE comps[id]]

\* unlink of the files of a clear_* call, in order; the failAt-th unlink
\* raises (0: none does), which leaves that file and the later ones in place
Unlinked(file, k, failAt) ==
    IF failAt = 0 \/ k < failAt THEN NoFile ELSE file

\* a clearing that empties the components map and keeps the swap ledger
ClearingTheMapOnly(failAt) ==
    /\ failAt \in 0 .. 2
    /\ failAt = 1 => components_file.exists
    /\ failAt = 2 => component_swaps_file.exists
    /\ components' = <<>>
    /\ components_file' = Unlinked(components_file, 1, failAt)
    /\ last' = [op |-> "clear_components", ret |-> (failAt = 0), log |-> {}]
    /\ UNCHANGED <<now, source, maintVars, intervalVars, syncVars,
                   component_swaps, component_swaps_file>>

clear_components(failAt) ==
    /\ failAt \in 0 .. 2
    /\ failAt = 1 => components_file.exists
    /\ failAt = 2 => component_swaps_file.exists
    /\ components' = <<>>
    /\ component_swaps' = <<>>
    /\ components_file' = Unlinked(components_file, 1, failAt)
    /\ component_swaps_file' = Unlinked(component_swaps_file, 2, failAt)
    /\ last' = [op |-> "clear_components", ret |-> (failAt = 0), log |-> {}]
    /\ UNCHANGED <<now, source, maintVars, intervalVars, syncVars>>

clear_all_data(failAt) ==
    /\ failAt \in 0 .. 4
    /\ failAt = 1 => components_file.exists
    /\ failAt = 2 => component_swaps_file.exists
    /\ failAt = 3 => maintenance_file.exists
    /\ failAt = 4 => intervals_file.exists
    /\ components' = <<>>
    /\ component_swaps' = <<>>
    /\ maintenance_records' = <<>>
    /\ service_intervals' = <<>>
    /\ components_file' = Unlinked(components_file, 1, failAt)
    /\ component_swaps_file' = Unlinked(component_swaps_file, 2, failAt)
    /\ maintenance_file' = Unlinked(maintenance_file, 3, failAt)
    /\ gear_usage_held' = LeftWithTheirLists(gear_usage_held)
    /\ intervals_file' = Unlinked(intervals_file, 4, failAt)
    /\ last' = [op |-> "clear_all_data", ret |-> (failAt = 0), log |-> {}]
    /\ UNCHANGED <<now, source, syncVars>>

\* ------------------------------------------------------ Maintenance Ledger
MaintenanceTypes == {PyEnum("WASH"), PyEnum("LUBE")}

\* dict.get(gear_id, [])
Get(d, k) == IF k \in DOMAIN d THEN d[k] ELSE <<>>

\* number of entries a gear_id -> list mapping holds
RECURSIVE SumLen(_, _)
SumLen(d, keys) ==
    IF keys = {} THEN 0
    ELSE LET k == CHOOSE x \in keys : TRUE IN Len(d[k]) + SumLen(d, keys \ {k})
TotalLen(d) == SumLen(d, DOMAIN d)

\* max(records, key=lambda x: x.date): the first record with the greatest date
RECURSIVE MaxByDate(_)
MaxByDate(records) ==
    IF Len(records) = 1 THEN records[1]
    ELSE LET m == MaxByDate(Tail(records)) IN
         IF Head(records).date >= m.date THEN Head(records) ELSE m

\* sorted(records, key=lambda x: x.date): ascending and stable
RECURSIVE InsertByDate(_, _)
InsertByDate(sorted, r) ==
    IF sorted = <<>> THEN <<r>>
    ELSE IF Head(sorted).date <= r.date
         THEN <<Head(sorted)>> \o InsertByDate(Tail(sorted), r)
         ELSE <<r>> \o sorted

RECURSIVE SortedByDate(_)
SortedByDate(records) ==
    IF records = <<>> THEN <<>>
    ELSE InsertByDate(SortedByDate(SubSeq(records, 1, Len(records) - 1)),
                      records[Len(records)])

\* Window Selector. datetime.fromisoformat raises on a start_date that is
\* missing or is no ISO date; the loop logs the error and goes on.
Unparseable == -2
Parses(activity) == activity.start_date # Unparseable

\* a window that leaves out the activity that starts at start_date
OpenWindow(activities, start_date, end_date) ==
    LET InRange(activity) ==
            /\ Parses(activity)
            /\ start_date = NoDate \/ activity.start_date > start_date
            /\ activity.start_date <= end_date
    IN SelectSeq(activities, InRange)

_get_activities_between_dates(activities, start_date, end_date) ==
    LET InRange(activity) ==
            /\ Parses(activity)
            /\ start_date = NoDate \/ activity.start_date >= start_date
            /\ activity.start_date <= end_date
    IN SelectSeq(activities, InRange)

\* sum(activity.get('distance', 0) ...) / 1000
RECURSIVE SumDistance(_)
SumDistance(activities) ==
    IF activities = <<>> THEN 0
    ELSE FloatAdd(SumDistance(SubSeq(activities, 1, Len(activities) - 1)),
                  activities[Len(activities)].distance)

calculate_distance(record) ==
    SumDistance(record.activities_since_last_maintenance) \div 1000

\* what _save_* logs when the write fails
SaveLog(io, what) == IF io = "ok" THEN {} ELSE {"Error saving " \o what}

\* the date of the latest record, whatever its type
PreviousDateOfAnyType(records, maintenance_type) ==
    IF records # <<>> THEN MaxByDate(records).date ELSE NoDate

\* previous_maintenance.date if previous_maintenance else None
PreviousDate(records, maintenance_type) ==
    LET OfType(r) == r.maintenance_type = maintenance_type
        type_records == SelectSeq(records, OfType)
    IN IF type_records # <<>> THEN MaxByDate(type_records).date ELSE NoDate

\* limit: the records the ledger may hold in the behaviours considered
\* a recording that moves the gear's service intervals to the new record
ReanchoringRecord(gear_id, maintenance_type, failAt, io, limit) ==
    LET OfGear(a) == a.gear_id = gear_id
        record == [gear_id |-> gear_id, maintenance_type |-> maintenance_type,
                   date |-> now,
                   activities_since_last_maintenance |->
                       SelectSeq(_get_activities_between_dates(
                                     get_all_activities(failAt),
                                     PreviousDate(Get(maintenance_records, gear_id),
                                                  maintenance_type),
                                     now), OfGear)]
    IN /\ TotalLen(maintenance_records) < limit
       /\ maintenance_records' =
              Put(maintenance_records, gear_id,
                  Append(Get(maintenance_records, gear_id), record))
       /\ maintenance_file' = Saved(maintenance_file, maintenance_records', io)
       /\ UNCHANGED gear_usage_held
       /\ service_intervals' =
              [g \in DOMAIN service_intervals |->
                  IF g # gear_id THEN service_intervals[g]
                  ELSE [i \in 1 .. Len(service_intervals[g]) |->
                           [service_intervals[g][i] EXCEPT
                               !.last_service_date = now]]]
       /\ last' = [op |-> "record_maintenance", ret |-> TRUE,
                   log |-> FetchLog(failAt) \cup SaveLog(io, "maintenance records")]
       /\ UNCHANGED <<now, source, intervals_file, compVars, syncVars>>

record_maintenance(gear_id, maintenance_type, failAt, io, limit) ==
    LET current_date == now
        activities == get_all_activities(failAt)
        previous_date ==
            PreviousDate(Get(maintenance_records, gear_id), maintenance_type)
        activities_since_maintenance ==
            _get_activities_between_dates(activities, previous_date, current_date)
        OfGear(a) == a.gear_id = gear_id
        gear_activities == SelectSeq(activities_since_maintenance, OfGear)
        record == [gear_id |-> gear_id, maintenance_type |-> maintenance_type,
                   date |-> current_date,
                   activities_since_last_maintenance |-> gear_activities]
    IN /\ TotalLen(maintenance_records) < limit
       /\ maintenance_records' =
              Put(maintenance_records, gear_id,
                  Append(Get(maintenance_records, gear_id), record))
       /\ maintenance_file' = Saved(maintenance_file, maintenance_records', io)
       /\ UNCHANGED gear_usage_held
       /\ last' = [op |-> "record_maintenance", ret |-> TRUE,
                   log |-> FetchLog(failAt) \cup SaveLog(io, "maintenance records")]
       /\ UNCHANGED <<now, source, intervalVars, compVars, syncVars>>

\* a deletion that forgets the 1-based index: del records[record_index]
RemoveZeroBased(records, i) ==
    SubSeq(records, 1, i) \o SubSeq(records, i + 2, Len(records))

\* del records[record_index - 1]
Remove(records, i) == SubSeq(records, 1, i - 1) \o SubSeq(records, i + 1, Len(records))

delete_maintenance_record(gear_id, record_index, io) ==
    /\ UNCHANGED <<now, source, intervalVars, compVars, syncVars>>
    /\ IF gear_id \notin DOMAIN maintenance_records
       THEN /\ last' = [op |-> "delete_maintenance_record", ret |-> FALSE,
                        log |-> {"No maintenance records found"}]
            /\ UNCHANGED maintVars
       ELSE IF ~(1 <= record_index /\ record_index <= Len(maintenance_records[gear_id]))
       THEN /\ last' = [op |-> "delete_maintenance_record", ret |-> FALSE,
                        log |-> {"Invalid record index"}]
            /\ UNCHANGED maintVars
       ELSE /\ maintenance_records' =
                   [maintenance_records EXCEPT ![gear_id] = Remove(@, record_index)]
            /\ maintenance_file' = Saved(maintenance_file, maintenance_records', io)
            /\ UNCHANGED gear_usage_held
            /\ last' = [op |-> "delete_maintenance_record", ret |-> TRUE,
                        log |-> SaveLog(io, "maintenance records"),
                        deleted |-> <<record_index, gear_id>>]

clear_maintenance(failAt) ==
    /\ failAt \in 0 .. 1
    /\ failAt = 1 => maintenance_file.exists
    /\ maintenance_records' = <<>>
    /\ maintenance_file' = Unlinked(maintenance_file, 1, failAt)
    /\ gear_usage_held' = LeftWithTheirLists(gear_usage_held)
    /\ last' = [op |-> "clear_maintenance", ret |-> (failAt = 0), log |-> {}]
    /\ UNCHANGED <<now, source, intervalVars, compVars, syncVars>>

\* ------------------------------------------------ Service Interval Tracker
\* Python truth value of an `item` argument, and whether it has .lower()
Truthy(item) == item.t = "MaintenanceType" \/ (item.t = "str" /\ item.v # "")
IsStr(x) == x.t = "str"

\* a history listed latest first, as the menu lists it
HistoryLatestFirst(gear_id, item) ==
    LET records == Get(maintenance_records, gear_id)
        Matches(r) == r.maintenance_type = item
        sorted == SortedByDate(IF Truthy(item) THEN SelectSeq(records, Matches)
                               ELSE records)
    IN [i \in 1 .. Len(sorted) |-> sorted[Len(sorted) + 1 - i]]

get_maintenance_history(gear_id, item) ==
    LET records == Get(maintenance_records, gear_id)
        Matches(r) == r.maintenance_type = item
    IN SortedByDate(IF Truthy(item) THEN SelectSeq(records, Matches) ELSE records)

IntervalTypes == {"time", "distance", "weeks"}
IntervalValues == {0, 500}
Items == {PyStr("WASH"), PyStr(""), PyEnum("WASH")}
IntervalActions == {"Replace"}

add_service_interval(gear_id, item, interval_type, interval_value, action, io) ==
    LET Return(r, log) ==
            last' = [op |-> "add_service_interval", ret |-> r, log |-> log]
        history == get_maintenance_history(gear_id, item)
        latest_record == MaxByDate(history)
        interval == [gear_id |-> gear_id, item |-> PyStr(Lower(item.v)),
                     interval_type |-> interval_type,
                     interval_value |-> interval_value,
                     action |-> Lower(action),
                     last_service_date |-> latest_record.date,
                     last_service_distance |-> calculate_distance(latest_record)]
    IN /\ TotalLen(service_intervals) < MaxIntervals
       /\ UNCHANGED <<now, source, maintVars, compVars, syncVars>>
       /\ IF history = <<>>
          THEN /\ Return(FALSE, {"Cannot add service interval: No maintenance records found"})
               /\ UNCHANGED intervalVars
          ELSE IF interval_type \notin {"time", "distance"}
          THEN /\ Return(FALSE, {"Invalid interval type"})
               /\ UNCHANGED intervalVars
          ELSE IF interval_value <= 0
          THEN /\ Return(FALSE, {"Interval value must be positive"})
               /\ UNCHANGED intervalVars
          ELSE IF ~IsStr(item)
          THEN \* item.lower() raises AttributeError, caught by the handler
               /\ Return(FALSE, {"Error adding service interval"})
               /\ UNCHANGED intervalVars
          ELSE /\ service_intervals' =
                      Put(service_intervals, gear_id,
                          Append(Get(service_intervals, gear_id), interval))
               /\ intervals_file' = Saved(intervals_file, service_intervals', io)
               /\ Return(TRUE, SaveLog(io, "service intervals"))

clear_service_intervals(failAt) ==
    /\ failAt \in 0 .. 1
    /\ failAt = 1 => intervals_file.exists
    /\ service_intervals' = <<>>
    /\ intervals_file' = Unlinked(intervals_file, 1, failAt)
    /\ last' = [op |-> "clear_service_intervals", ret |-> (failAt = 0), log |-> {}]
    /\ UNCHANGED <<now, source, maintVars, compVars, syncVars>>

\* ------------------------------------------------------------------- sync
IsNight(t) == 20 <= Hour(t) \/ Hour(t) < 6

needs_sync(ok) ==
    IF sync_state = <<>> THEN TRUE
    ELSE IF Date(now) > Date(sync_state[1].last_sync_time) /\ IsNight(now)
    THEN LET latest_activity == get_latest_activity(ok) IN
         IF latest_activity = <<>> THEN FALSE
         ELSE PyInt(latest_activity[1].id) # sync_state[1].latest_activity_id
    ELSE FALSE

sync_activities(ok1, ok2, failAt, okAfter, io) ==
    LET latest_activity == get_latest_activity(ok2)
        IsKnown(a) == PyInt(a.id) = sync_state[1].latest_activity_id
        known == IF sync_state # <<>> THEN SelectSeq(activities_cache, IsKnown)
                 ELSE <<>>
        cache == IF known # <<>>
                 THEN activities_cache \o
                      _get_activities_after_date(known[1].start_date, okAfter)
                 ELSE get_all_activities(failAt)
    IN /\ UNCHANGED <<now, source, maintVars, intervalVars, component_swaps,
                      component_swaps_file>>
       /\ IF ~needs_sync(ok1)
          THEN /\ last' = [op |-> "sync_activities", ret |-> TRUE,
                           log |-> {"No sync needed at this time."}]
               /\ UNCHANGED <<syncVars, components, components_file>>
          ELSE IF latest_activity = <<>>
          THEN /\ last' = [op |-> "sync_activities", ret |-> FALSE,
                           log |-> {"Failed to get latest activity"}]
               /\ UNCHANGED <<syncVars, components, components_file>>
          ELSE /\ activities_cache' = cache
               /\ sync_state' =
                      <<[last_sync_time |-> now,
                         latest_activity_id |-> PyStr(latest_activity[1].id),
                         latest_activity_date |-> latest_activity[1].start_date]>>
               /\ sync_state_file' = Saved(sync_state_file, sync_state', io)
               /\ components' = UpdatedComponents(components, cache)
               /\ components_file' = Saved(components_file, components', io)
               /\ last' = [op |-> "sync_activities", ret |-> TRUE,
                           log |-> {"Activity sync completed successfully"}]

\* ------------------------------------------------------- the environment
\* The clock advances.
Tick(limit) ==
    /\ now < limit
    /\ now' = now + 1
    /\ last' = [op |-> "tick", ret |-> TRUE, log |-> {}]
    /\ UNCHANGED <<source, maintVars, intervalVars, compVars, syncVars>>

\* The athlete uploads an activity; the feed lists activities latest first.
RECURSIVE InsertLatestFirst(_, _)
InsertLatestFirst(feed, a) ==
    IF feed = <<>> \/ Head(feed).start_date <= a.start_date THEN <<a>> \o feed
    ELSE <<Head(feed)>> \o InsertLatestFirst(Tail(feed), a)

Ride(g, d, start, limit) ==
    /\ Len(source) < limit
    /\ source' = InsertLatestFirst(source,
                    [id |-> Len(source) + 1, gear_id |-> g, sport_type |-> "Ride",
                     distance |-> d, start_date |-> start])
    /\ last' = [op |-> "ride", ret |-> TRUE, log |-> {}]
    /\ UNCHANGED <<now, maintVars, intervalVars, compVars, syncVars>>

Init ==
    /\ now = 0
    /\ source = <<>>
    /\ maintenance_records = <<>>
    /\ service_intervals = <<>>
    /\ components = <<>>
    /\ component_swaps = <<>>
    /\ sync_state = <<>>
    /\ activities_cache = <<>>
    /\ maintenance_file = NoFile
    /\ intervals_file = NoFile
    /\ components_file = NoFile
    /\ component_swaps_file = NoFile
    /\ sync_state_file = NoFile
    /\ last = [op |-> "init", ret |-> TRUE, log |-> {}]
    /\ gear_usage_held = <<>>

\* ------------------------------------- the component lifecycle and the sync
ComponentIds == (DOMAIN components) \cup {UnknownId}

NextComp ==
    \/ Tick(MaxTime)
    \/ \E g \in Gears, d \in Dists : Ride(g, d, now, MaxActs)
    \/ \E name \in Names, brand \in Brands, model \in Models, g \in Gears,
          failAt \in FailAts, io \in {"ok"} :
          add_component(name, brand, model, g, failAt, io)
    \/ \E g \in Gears, old \in ComponentIds, new \in ComponentIds \cup {NoneId},
          action \in SwapActions, failAt \in FailAts, io \in {"ok"} :
          swap_component(g, old, new, action, failAt, io, MaxSwaps)
    \/ \E failAt \in 0 .. 2 : clear_components(failAt)
    \/ \E failAt \in 0 .. 4 : clear_all_data(failAt)

SpecComp == Init /\ [][NextComp]_vars

\* --------------------------------- the maintenance ledger and the intervals
NextMaint ==
    \/ Tick(MaxTime)
    \/ \E g \in Gears, d \in Dists, start \in 0 .. MaxTime : Ride(g, d, start, MaxActs)
    \/ \E g \in Gears, mt \in MaintenanceTypes, failAt \in FailAts :
          record_maintenance(g, mt, failAt, "ok", MaxRecords)
    \/ \E g \in Gears, i \in 0 .. (MaxRecords + 1) :
          delete_maintenance_record(g, i, "ok")
    \/ \E failAt \in 0 .. 1 : clear_maintenance(failAt)

SpecMaint == Init /\ [][NextMaint]_vars

\* ------------------------ the maintenance ledger over a failing Record Store
NextStore ==
    \/ Tick(MaxTime)
    \/ \E g \in Gears, d \in Dists, start \in 0 .. MaxTime : Ride(g, d, start, MaxActs)
    \/ \E g \in Gears, mt \in MaintenanceTypes, failAt \in FailAts, io \in IOs :
          record_maintenance(g, mt, failAt, io, MaxRecords)
    \/ \E g \in Gears, i \in 0 .. (MaxRecords + 1), io \in IOs :
          delete_maintenance_record(g, i, io)
    \/ \E failAt \in 0 .. 1 : clear_maintenance(failAt)

SpecStore == Init /\ [][NextStore]_vars

\* ------------------------------------ the maintenance ledger and the intervals
NextInterval ==
    \/ NextMaint
    \/ \E g \in Gears, item \in Items, type \in IntervalTypes,
          value \in IntervalValues, action \in IntervalActions :
          add_service_interval(g, item, type, value, action, "ok")
    \/ \E failAt \in 0 .. 1 : clear_service_intervals(failAt)

SpecInterval == Init /\ [][NextInterval]_vars

\* --------------------------------------- the sync and the component lifecycle
\* One bike and one make of component, over three clock readings: a night,
\* the same day's noon and the next night.
NextSync ==
    \/ Tick(MaxSyncTime)
    \/ \E d \in Dists : Ride("g1", d, now, MaxActs)
    \/ \E failAt \in FailAts : add_component("Chain", "KMC", "x11", "g1", failAt, "ok")
    \/ \E old \in DOMAIN components, new \in (DOMAIN components) \cup {NoneId},
          action \in {"remove", "retire"} :
          swap_component("g1", old, new, action, 0, "ok", MaxSwaps)
    \/ \E ok1 \in BOOLEAN, ok2 \in BOOLEAN, failAt \in FailAts, okAfter \in BOOLEAN :
          sync_activities(ok1, ok2, failAt, okAfter, "ok")
    \/ \E failAt \in 0 .. 2 : clear_components(failAt)
    \/ \E failAt \in 0 .. 4 : clear_all_data(failAt)

SpecSync == Init /\ [][NextSync]_vars

\* ------------------------------------- a caller keeps what was aggregated
\* what is read through a maintenance_history held for gear g
HistoryHeld(g) ==
    IF gear_usage_held[g].shared THEN maintenance_records[g]
    ELSE gear_usage_held[g].own

\* A caller aggregates the feed and keeps the GearUsage objects returned.
Hold ==
    /\ source # <<>>
    /\ gear_usage_held' =
           LET gear_usage == analyze_gear_usage(source)
           IN [g \in DOMAIN gear_usage |-> gear_usage[g].maintenance_history]
    /\ last' = [op |-> "hold", ret |-> TRUE, log |-> {}]
    /\ UNCHANGED <<now, source, maintenance_records, maintenance_file,
                   intervalVars, compVars, syncVars>>

NextHeld ==
    \/ Tick(MaxTime)
    \/ \E g \in Gears, d \in Dists : Ride(g, d, now, MaxActs)
    \/ Hold
    \/ \E g \in Gears, mt \in MaintenanceTypes :
          record_maintenance(g, mt, 0, "ok", MaxRecords)
    \/ \E g \in Gears, i \in 1 .. MaxRecords :
          delete_maintenance_record(g, i, "ok")
    \/ clear_maintenance(0)

SpecHeld == Init /\ [][NextHeld]_vars

\* ------------------------------------------- one part replaces another
\* Parts of one make are added at different clock readings, taken off and
\* put on the two bikes.
NextSwap ==
    \/ Tick(MaxTime)
    \/ \E g \in Gears, d \in Dists : Ride(g, d, now, MaxActs)
    \/ \E g \in Gears : add_component("Chain", "KMC", "x11", g, 0, "ok")
    \/ \E g \in Gears, old \in ComponentIds, new \in ComponentIds \cup {NoneId},
          action \in {"remove", "retire"} :
          swap_component(g, old, new, action, 0, "ok", MaxLedger)

SpecSwap == Init /\ [][NextSwap]_vars

\* ------------------------------------- maintenance recorded over a longer feed
NextSnapshot ==
    \/ Tick(MaxTime)
    \/ \E g \in Gears, d \in Dists, start \in 0 .. MaxTime : Ride(g, d, start, MaxFeed)
    \/ \E g \in Gears, mt \in MaintenanceTypes, failAt \in FailAts :
          record_maintenance(g, mt, failAt, "ok", MaxRecords)

SpecSnapshot == Init /\ [][NextSnapshot]_vars

\* ------------------------------------------------------ the Window Selector
\* Any list of activities, in any order, dated or not, is handed to the
\* Window Selector with any bounds.
WindowDates == 0 .. MaxTime
Listed(g, d, start) ==
    /\ Len(source) < MaxListed
    /\ source' = Append(source,
                    [id |-> Len(source) + 1, gear_id |-> g, sport_type |-> "Ride",
                     distance |-> d, start_date |-> start])
    /\ last' = [op |-> "listed", ret |-> TRUE, log |-> {}]
    /\ UNCHANGED <<now, maintVars, intervalVars, compVars, syncVars>>

Select(start_date, end_date) ==
    /\ last' = [op |-> "_get_activities_between_dates",
                ret |-> _get_activities_between_dates(source, start_date, end_date),
                log |-> IF \E i \in 1 .. Len(source) : ~Parses(source[i])
                        THEN {"Error processing activity date"} ELSE {},
                start_date |-> start_date, end_date |-> end_date]
    /\ UNCHANGED <<now, source, maintVars, intervalVars, compVars, syncVars>>

NextWindow ==
    \/ \E g \in Gears, d \in Dists, start \in WindowDates \cup {Unparseable} :
          Listed(g, d, start)
    \/ \E start_date \in WindowDates \cup {NoDate}, end_date \in WindowDates :
          Select(start_date, end_date)

SpecWindow == Init /\ [][NextWindow]_vars

\* ----------------------------------------------------- the Usage Aggregator
\* Any list of dated activities, with or without a gear, is aggregated as
\* it stands and in another order.
FloatDists == {1000, 16000}
Perms(n) == {p \in [1 .. n -> 1 .. n] : \A i, j \in 1 .. n : p[i] = p[j] => i = j}
Permuted(activities, p) == [i \in 1 .. Len(activities) |-> activities[p[i]]]

Aggregate(p) ==
    /\ last' = [op |-> "analyze_gear_usage",
                ret |-> analyze_gear_usage(source),
                log |-> {},
                permuted |-> analyze_gear_usage(Permuted(source, p))]
    /\ UNCHANGED <<now, source, maintVars, intervalVars, compVars, syncVars>>

NextUsage ==
    \/ \E g \in Gears \cup {NoGear}, d \in FloatDists, start \in WindowDates :
          Listed(g, d, start)
    \/ \E p \in Perms(Len(source)) : Aggregate(p)

SpecUsage == Init /\ [][NextUsage]_vars

\* ------------------------------- what the Record Store holds of the components
\* _load_components / _load_component_swaps: what a file holds, nothing
\* when there is no file
Loaded(file) == IF file.exists THEN file.data ELSE <<>>

\* One bike; parts are added, swapped against known and unknown parts, and
\* the activities are synced, while every write to the Record Store succeeds.
NextPersist ==
    \/ Tick(MaxSyncTime)
    \/ \E d \in Dists : Ride("g1", d, now, MaxActs)
    \/ add_component("Chain", "KMC", "x11", "g1", 0, "ok")
    \/ \E old \in DOMAIN components, new \in ComponentIds \cup {NoneId},
          action \in {"remove", "retire"} :
          swap_component("g1", old, new, action, 0, "ok", MaxLedger)
    \/ \E ok \in BOOLEAN : sync_activities(ok, ok, 0, ok, "ok")

SpecPersist == Init /\ [][NextPersist]_vars

\* --------------------------------------------- the menu's delete-a-record flow
\* sorted(records, key=lambda x: x.date, reverse=True), as the stored
\* positions in the order displayed: latest first, records of one date in
\* stored order (a reverse sort is stable too)
RECURSIVE InsertLatest(_, _, _)
InsertLatest(records, order, i) ==
    IF order = <<>> THEN <<i>>
    ELSE IF records[Head(order)].date >= records[i].date
         THEN <<Head(order)>> \o InsertLatest(records, Tail(order), i)
         ELSE <<i>> \o order

RECURSIVE DisplayOrderOf(_, _)
DisplayOrderOf(records, n) ==
    IF n = 0 THEN <<>>
    ELSE InsertLatest(records, DisplayOrderOf(records, n - 1), n)

DisplayOrder(records) == DisplayOrderOf(records, Len(records))

\* Choice 2.2.2: without records of the active bike nothing is asked;
\* otherwise the records are listed, numbered from 1, and the number the
\* user enters is handed to delete_maintenance_record as it is.
DeleteARecord(active_bike, record_choice, io) ==
    /\ Get(maintenance_records, active_bike) # <<>>
    /\ delete_maintenance_record(active_bike, record_choice, io)

NextMenu ==
    \/ Tick(MaxTime)
    \/ \E g \in Gears, d \in Dists : Ride(g, d, now, MaxActs)
    \/ \E g \in Gears, mt \in MaintenanceTypes :
          record_maintenance(g, mt, 0, "ok", MaxHistory)
    \/ \E g \in Gears, k \in 0 .. (MaxHistory + 1) : DeleteARecord(g, k, "ok")

SpecMenu == Init /\ [][NextMenu]_vars

\* =================================================================== claims

\* C1. Once a component's status is 'retired' it stays 'retired': no call of
\* swap_component or sync_activities (_update_gear_usage), the operations
\* that update a stored component in place, leaves a component that was
\* retired with another status.
C1_RetiredIsTerminal ==
    [][last'.op \in {"swap_component", "sync_activities"} =>
          \A id \in DOMAIN components :
             components[id].status = "retired"
                 => components'[id].status = "retired"]_vars

\* C2. swap_component with a known old component on the given gear and a
\* new_component_id that is unknown or not 'in_inventory' returns failure
\* and leaves the components and the swap ledger exactly as they were.
RejectedInstall(gear_id, old, new) ==
    /\ old \in DOMAIN components
    /\ components[old].gear_id = gear_id
    /\ new # NoneId
    /\ new \notin DOMAIN components \/ components[new].status # "in_inventory"

C2_FailedInstallChangesNothing ==
    [][last'.op = "swap_component" =>
          \A g \in Gears, old \in ComponentIds, new \in ComponentIds,
             action \in SwapActions, failAt \in FailAts, io \in IOs :
             (swap_component(g, old, new, action, failAt, io, MaxSwaps)
                 /\ RejectedInstall(g, old, new))
             => /\ last'.ret = FALSE
                /\ components' = components
                /\ component_swaps' = component_swaps]_vars

\* C9. Every successful add_component creates a component under an id no
\* stored component has: the components map grows by exactly one and every
\* component stored before is still there, unchanged.
C9_FreshComponentId ==
    [][last'.op = "add_component" =>
          /\ last'.ret \notin DOMAIN components
          /\ Cardinality(DOMAIN components') = Cardinality(DOMAIN components) + 1
          /\ \A id \in DOMAIN components :
                id \in DOMAIN components' /\ components'[id] = components[id]]_vars

\* C10. The component-swap ledger is append-only under every operation
\* (add_component, swap_component, clear_components, clear_all_data, sync):
\* the ledger before the operation is a prefix of the ledger after it.
IsPrefix(a, b) == Len(a) <= Len(b) /\ SubSeq(b, 1, Len(a)) = a

C10_LedgerAppendOnly ==
    [][IsPrefix(component_swaps, component_swaps')]_vars

\* C10 as amended. add_component, swap_component and sync_activities only
\* append to the ledger; clear_components and clear_all_data empty it.
C10_AppendOnlyUntilCleared ==
    [][/\ last'.op \in {"add_component", "swap_component", "sync_activities"}
            => IsPrefix(component_swaps, component_swaps')
       /\ last'.op \in {"clear_components", "clear_all_data"}
            => component_swaps' = <<>>]_vars

\* a swap has just appended to a ledger that already held an entry
C10_Witness ==
    /\ last.op = "swap_component"
    /\ last.ret = TRUE
    /\ Len(component_swaps) >= 2
    /\ component_swaps[Len(component_swaps)].action \in {"remove", "retire"}

\* C8. delete_maintenance_record(gear, i) fails and leaves the ledger as it
\* was when gear has no record list or i is outside 1..len(records);
\* otherwise it succeeds and the gear's stored list is the previous list
\* without its i-th element, every other record kept in order, and the
\* other gears' lists untouched.
WithoutIth(records, i) ==
    [j \in 1 .. (Len(records) - 1) |-> IF j < i THEN records[j] ELSE records[j + 1]]

DeletePost(gear_id, i) ==
    IF \/ gear_id \notin DOMAIN maintenance_records
       \/ i < 1
       \/ i > Len(maintenance_records[gear_id])
    THEN /\ last'.ret = FALSE
         /\ maintenance_records' = maintenance_records
    ELSE /\ last'.ret = TRUE
         /\ DOMAIN maintenance_records' = DOMAIN maintenance_records
         /\ maintenance_records'[gear_id] = WithoutIth(maintenance_records[gear_id], i)
         /\ \A g \in DOMAIN maintenance_records :
               g # gear_id => maintenance_records'[g] = maintenance_records[g]

C8_DeleteByStoredIndex ==
    [][last'.op = "delete_maintenance_record" =>
          \A g \in Gears, i \in 0 .. (MaxRecords + 1), io \in IOs :
             delete_maintenance_record(g, i, io) => DeletePost(g, i)]_vars

\* the first of two stored records of a gear has just been deleted, and the
\* one recorded at a later clock reading remains
C8_Witness ==
    /\ last.op = "delete_maintenance_record"
    /\ last.ret = TRUE
    /\ last.deleted[1] = 1
    /\ Len(maintenance_records[last.deleted[2]]) = 1
    /\ maintenance_records[last.deleted[2]][1].date = MaxTime

\* C3. When record_maintenance(gear, type) succeeds at instant now and the
\* latest record of the same gear and type has date prev, the snapshot of
\* the new record is exactly the fetched activities of the gear with
\* prev < start_date <= now: an activity that started at prev is not in it.
SnapshotPost(gear_id, maintenance_type, failAt) ==
    LET OfType(r) == r.maintenance_type = maintenance_type
        type_records == SelectSeq(Get(maintenance_records, gear_id), OfType)
        prev == MaxByDate(type_records).date
        InWindow(a) == a.gear_id = gear_id /\ prev < a.start_date /\ a.start_date <= now
        new == maintenance_records'[gear_id][Len(maintenance_records'[gear_id])]
    IN type_records # <<>> =>
          new.activities_since_last_maintenance =
              SelectSeq(get_all_activities(failAt), InWindow)

C3_SnapshotExcludesPrevious ==
    [][last'.op = "record_maintenance" =>
          \A g \in Gears, mt \in MaintenanceTypes, failAt \in FailAts, io \in IOs :
             (record_maintenance(g, mt, failAt, io, MaxRecords) /\ last'.ret = TRUE)
                 => SnapshotPost(g, mt, failAt)]_vars

\* C4. When the gear has at least one maintenance record of the item,
\* interval_type is 'time' or 'distance' and interval_value > 0,
\* add_service_interval returns success and appends one interval anchored
\* to the date and the distance of the latest such record.
RecordsFor(gear_id, item) ==
    LET OfItem(r) == r.maintenance_type.v = item.v
    IN SelectSeq(Get(maintenance_records, gear_id), OfItem)

AnchoredPost(gear_id, item) ==
    LET anchor == MaxByDate(RecordsFor(gear_id, item))
        before == Get(service_intervals, gear_id)
    IN /\ last'.ret = TRUE
       /\ gear_id \in DOMAIN service_intervals'
       /\ Len(service_intervals'[gear_id]) = Len(before) + 1
       /\ SubSeq(service_intervals'[gear_id], 1, Len(before)) = before
       /\ LET new == service_intervals'[gear_id][Len(before) + 1]
          IN /\ new.last_service_date = anchor.date
             /\ new.last_service_distance = calculate_distance(anchor)

C4_IntervalAnchoredToLatest ==
    [][last'.op = "add_service_interval" =>
          \A g \in Gears, item \in Items, type \in {"time", "distance"},
             value \in IntervalValues, action \in IntervalActions, io \in IOs :
             (/\ add_service_interval(g, item, type, value, action, io)
              /\ RecordsFor(g, item) # <<>>
              /\ value > 0)
                 => AnchoredPost(g, item)]_vars

\* C5. When the gear has no maintenance record of the item,
\* add_service_interval returns failure whatever the interval_type, the
\* interval_value and the action, and service_intervals is unchanged.
C5_NoHistoryNoInterval ==
    [][last'.op = "add_service_interval" =>
          \A g \in Gears, item \in Items, type \in IntervalTypes,
             value \in IntervalValues, action \in IntervalActions, io \in IOs :
             (/\ add_service_interval(g, item, type, value, action, io)
              /\ RecordsFor(g, item) = <<>>)
                 => /\ last'.ret = FALSE
                    /\ service_intervals' = service_intervals]_vars

\* C6. When a page request of the Activity Source fails during
\* record_maintenance, the call returns failure and the maintenance ledger
\* in memory is unchanged.
C6_FetchFailureAborts ==
    [][last'.op = "record_maintenance" =>
          \A g \in Gears, mt \in MaintenanceTypes, failAt \in FailAts \ {0},
             io \in IOs :
             record_maintenance(g, mt, failAt, io, MaxRecords)
                 => /\ last'.ret = FALSE
                    /\ maintenance_records' = maintenance_records]_vars

\* C7. When the write of the maintenance records to the Record Store fails
\* during record_maintenance, the call returns failure and the new record
\* is not left in the maintenance ledger in memory.
C7_StoreFailureAborts ==
    [][last'.op = "record_maintenance" =>
          \A g \in Gears, mt \in MaintenanceTypes, failAt \in FailAts :
             record_maintenance(g, mt, failAt, "unwritable", MaxRecords)
                 => /\ last'.ret = FALSE
                    /\ maintenance_records' = maintenance_records]_vars

\* C11. _get_activities_between_dates(activities, s, e) returns exactly the
\* activities with a parseable start_date d such that (s is None or d >= s)
\* and d <= e, in the order of the input; an activity whose start_date is
\* missing or unparseable is skipped and the call does not fail.
Selected(a, s, e) ==
    /\ a.start_date \in WindowDates
    /\ s = NoDate \/ a.start_date >= s
    /\ a.start_date <= e

\* where the activity of the given id stands in a list (0: nowhere)
PositionOf(activities, id) ==
    IF \E i \in 1 .. Len(activities) : activities[i].id = id
    THEN CHOOSE i \in 1 .. Len(activities) : activities[i].id = id
    ELSE 0

C11_WindowSelectsExactly ==
    last.op = "_get_activities_between_dates" =>
        LET result == last.ret
            s == last.start_date
            e == last.end_date
        IN /\ \A i \in 1 .. Len(source) :
                 Selected(source[i], s, e)
                     <=> \E j \in 1 .. Len(result) : result[j] = source[i]
           /\ \A j \in 1 .. Len(result) : PositionOf(source, result[j].id) > 0
           /\ \A j, k \in 1 .. Len(result) :
                 j < k => PositionOf(source, result[j].id)
                              < PositionOf(source, result[k].id)

\* a window with a lower bound has dropped an unparseable activity and one
\* before the bound, and kept the activity that starts at the bound
C11_Witness ==
    /\ last.op = "_get_activities_between_dates"
    /\ last.start_date = 1
    /\ "Error processing activity date" \in last.log
    /\ Len(source) = MaxListed
    /\ Len(last.ret) = 1
    /\ last.ret[1].start_date = last.start_date
    /\ \E i \in 1 .. Len(source) : source[i].start_date = 0

\* C12. analyze_gear_usage is order-independent: a list of activities and
\* any permutation of it give the same gear ids and, per gear, the same
\* sport_types, total_distance_m, activities_count, first_activity_date and
\* last_activity_date; an activity without a gear_id counts for no gear.
C12_OrderIndependent ==
    last.op = "analyze_gear_usage" =>
        /\ DOMAIN last.ret = DOMAIN last.permuted
        /\ NoGear \notin DOMAIN last.ret
        /\ \A g \in DOMAIN last.ret :
              /\ last.ret[g].sport_types = last.permuted[g].sport_types
              /\ last.ret[g].total_distance_m = last.permuted[g].total_distance_m
              /\ last.ret[g].activities_count = last.permuted[g].activities_count
              /\ last.ret[g].first_activity_date = last.permuted[g].first_activity_date
              /\ last.ret[g].last_activity_date = last.permuted[g].last_activity_date

\* C13. When record_maintenance(gear, type) succeeds and the gear has no
\* earlier record of the type (it may have records of other types, and
\* other gears may have records), the snapshot of the new record holds
\* every fetched activity of the gear with start_date <= now, however old,
\* and no activity of another gear.
FirstSnapshotPost(gear_id, maintenance_type, failAt) ==
    LET fetched == get_all_activities(failAt)
        new == maintenance_records'[gear_id][Len(maintenance_records'[gear_id])]
        snapshot == new.activities_since_last_maintenance
        NoEarlier == \A i \in 1 .. Len(Get(maintenance_records, gear_id)) :
                        maintenance_records[gear_id][i].maintenance_type
                            # maintenance_type
    IN NoEarlier =>
          /\ \A i \in 1 .. Len(fetched) :
                (fetched[i].gear_id = gear_id /\ fetched[i].start_date <= now)
                    => \E j \in 1 .. Len(snapshot) : snapshot[j] = fetched[i]
          /\ \A j \in 1 .. Len(snapshot) : snapshot[j].gear_id = gear_id

C13_FirstRecordTakesAll ==
    [][last'.op = "record_maintenance" =>
          \A g \in Gears, mt \in MaintenanceTypes, failAt \in FailAts, io \in IOs :
             (record_maintenance(g, mt, failAt, io, MaxRecords) /\ last'.ret = TRUE)
                 => FirstSnapshotPost(g, mt, failAt)]_vars

\* the second record of a gear is the first of its type, is made after the
\* other and holds an activity from before the other, while the feed also
\* lists an activity of another gear
C13_Witness ==
    /\ last.op = "record_maintenance"
    /\ last.log = {}
    /\ Len(source) = 2
    /\ \E g \in DOMAIN maintenance_records :
          LET records == maintenance_records[g] IN
          /\ Len(records) = 2
          /\ records[1].maintenance_type # records[2].maintenance_type
          /\ records[1].date = 0
          /\ records[2].date = MaxTime
          /\ Len(records[2].activities_since_last_maintenance) = 1
          /\ records[2].activities_since_last_maintenance[1].start_date = 0
          /\ \E i \in 1 .. 2 : source[i].gear_id # g

\* C14. A successful add_component(..., gear_id) leaves, under the id it
\* returns, a component with status 'active' on gear_id whose
\* mileage_at_installation and current_mileage are the gear's cumulative
\* distance (the sum of the distances of the fetched activities of the
\* gear / 1000, 0 without any), and appends exactly one ComponentSwap with
\* action 'install', that id, old_component_id None and the same mileage.
CumulativeKm(fetched, gear_id) ==
    LET OfGear(a) == a.gear_id = gear_id
    IN SumDistance(SelectSeq(fetched, OfGear)) \div 1000

AddedPost(gear_id, failAt) ==
    LET id == last'.ret
        km == CumulativeKm(get_all_activities(failAt), gear_id)
        n == Len(component_swaps)
    IN /\ id \in DOMAIN components'
       /\ components'[id].status = "active"
       /\ components'[id].gear_id = gear_id
       /\ components'[id].mileage_at_installation = km
       /\ components'[id].current_mileage = km
       /\ Len(component_swaps') = n + 1
       /\ SubSeq(component_swaps', 1, n) = component_swaps
       /\ component_swaps'[n + 1].action = "install"
       /\ component_swaps'[n + 1].component_id = id
       /\ component_swaps'[n + 1].old_component_id = NoneId
       /\ component_swaps'[n + 1].gear_id = gear_id
       /\ component_swaps'[n + 1].mileage = km

C14_AddedAtCurrentMileage ==
    [][last'.op = "add_component" =>
          \A name \in Names, brand \in Brands, model \in Models, g \in Gears,
             failAt \in FailAts :
             add_component(name, brand, model, g, failAt, "ok")
                 => AddedPost(g, failAt)]_vars

\* a component has just been added to a bike that has been ridden, after an
\* earlier entry of the ledger
C14_Witness ==
    /\ last.op = "add_component"
    /\ last.log = {}
    /\ components[last.ret].mileage_at_installation = 10
    /\ Len(component_swaps) >= 2
    /\ component_swaps[Len(component_swaps)].mileage = 10

\* C15. swap_component with a new_component_id returns success only if,
\* before the call, that component existed and was 'in_inventory': a
\* component that was 'active' or 'retired' before the call is never
\* installed by it, also when new_component_id is old_component_id.
C15_InstallsOnlyFromInventory ==
    [][last'.op = "swap_component" =>
          \A g \in Gears, old \in ComponentIds, new \in ComponentIds,
             action \in SwapActions, failAt \in FailAts, io \in IOs :
             (swap_component(g, old, new, action, failAt, io, MaxSwaps) /\ last'.ret = TRUE)
                 => /\ new \in DOMAIN components
                    /\ components[new].status = "in_inventory"]_vars

\* C16. When swap_component(gear, old, new, action) succeeds with a new
\* component, afterwards the new component is 'active' on gear with
\* mileage_at_installation and current_mileage the gear's cumulative
\* distance, and the ledger has gained exactly two entries, in order: the
\* removal of old with the action given, then an entry with action
\* 'install', component_id new and old_component_id old.
SwappedPost(gear_id, old, new, action, failAt) ==
    LET km == CumulativeKm(get_all_activities(failAt), gear_id)
        n == Len(component_swaps)
    IN /\ components'[new].status = "active"
       /\ components'[new].gear_id = gear_id
       /\ components'[new].mileage_at_installation = km
       /\ components'[new].current_mileage = km
       /\ Len(component_swaps') = n + 2
       /\ SubSeq(component_swaps', 1, n) = component_swaps
       /\ component_swaps'[n + 1].component_id = old
       /\ component_swaps'[n + 1].action = action
       /\ component_swaps'[n + 2].action = "install"
       /\ component_swaps'[n + 2].component_id = new
       /\ component_swaps'[n + 2].old_component_id = old

C16_SwapInstallsNew ==
    [][last'.op = "swap_component" =>
          \A g \in Gears, old \in ComponentIds, new \in ComponentIds,
             action \in {"remove", "retire"} :
             (swap_component(g, old, new, action, 0, "ok", MaxLedger)
                 /\ last'.ret = TRUE)
                 => SwappedPost(g, old, new, action, 0)]_vars

\* a part from the inventory has just replaced another on a bike that has
\* been ridden
C16_Witness ==
    /\ last.op = "swap_component"
    /\ last.ret = TRUE
    /\ Len(component_swaps) = MaxLedger
    /\ LET installation == component_swaps[Len(component_swaps)]
           removal == component_swaps[Len(component_swaps) - 1]
       IN /\ installation.action = "install"
          /\ installation.old_component_id # NoneId
          /\ installation.old_component_id # installation.component_id
          /\ installation.mileage = 10
          /\ removal.action = "retire"
          /\ removal.component_id = installation.old_component_id
          /\ components[installation.component_id].status = "active"
          /\ components[installation.old_component_id].status = "retired"

\* C17. swap_component returns failure and changes no component and no
\* entry of the swap ledger when old_component_id is not a known component
\* or when the old component's gear_id is not the gear_id argument.
C17_UnknownOrElsewhereRejected ==
    [][last'.op = "swap_component" =>
          \A g \in Gears, old \in ComponentIds, new \in ComponentIds \cup {NoneId},
             action \in {"remove", "retire"} :
             (/\ swap_component(g, old, new, action, 0, "ok", MaxLedger)
              /\ old \notin DOMAIN components \/ components[old].gear_id # g)
                 => /\ last'.ret = FALSE
                    /\ components' = components
                    /\ component_swaps' = component_swaps]_vars

\* a swap has just been refused because the part is on the other bike
C17_Witness ==
    /\ last.op = "swap_component"
    /\ last.ret = FALSE
    /\ last.log = {"Component is not installed on bike"}
    /\ Cardinality(DOMAIN components) = 2
    /\ \A id \in DOMAIN components : components[id].status = "active"
    /\ Len(component_swaps) = 2

\* C18. Recording or deleting maintenance never changes a stored service
\* interval: every interval that add_service_interval has stored is, after
\* a record_maintenance or delete_maintenance_record call, where it was,
\* with the same last_service_date, last_service_distance and other fields.
C18_IntervalsNotReanchored ==
    [][last'.op \in {"record_maintenance", "delete_maintenance_record"} =>
          \A g \in DOMAIN service_intervals :
             /\ g \in DOMAIN service_intervals'
             /\ Len(service_intervals'[g]) = Len(service_intervals[g])
             /\ \A i \in 1 .. Len(service_intervals[g]) :
                   service_intervals'[g][i] = service_intervals[g][i]]_vars

\* maintenance has just been recorded for a gear at a later clock reading
\* than the one an interval of the gear is anchored to
C18_Witness ==
    /\ last.op = "record_maintenance"
    /\ now = MaxTime
    /\ \E g \in DOMAIN service_intervals :
          /\ Len(service_intervals[g]) = 1
          /\ service_intervals[g][1].last_service_date = 0
          /\ g \in DOMAIN maintenance_records
          /\ Len(maintenance_records[g]) = 2
          /\ maintenance_records[g][2].date = MaxTime
          /\ maintenance_records[g][2].maintenance_type
                 = maintenance_records[g][1].maintenance_type

\* C19. Every entry of the component-swap ledger has an action among
\* 'install', 'remove' and 'retire', whatever action swap_component is
\* called with: a call with another action appends nothing.
C19_LedgerActions ==
    \A i \in 1 .. Len(component_swaps) :
       component_swaps[i].action \in {"install", "remove", "retire"}

\* C20. A GearUsage returned by analyze_gear_usage for gear g shares the
\* ledger's record list: whatever record_maintenance later adds for g (the
\* first record ever for g included) and whatever delete_maintenance_record
\* or clear_maintenance later removes is seen through its
\* maintenance_history, which stays equal to the ledger's list for g.
C20_HistoryFollowsLedger ==
    [][last'.op \in {"record_maintenance", "delete_maintenance_record",
                     "clear_maintenance"} =>
          \A g \in DOMAIN gear_usage_held' :
             HistoryHeld(g)' = Get(maintenance_records', g)]_vars

\* C20 as amended. The maintenance_history of a GearUsage returned for g is
\* the ledger's list exactly when g had a list in the ledger at that time,
\* and a new empty list otherwise. Through a shared list the records that
\* record_maintenance adds and delete_maintenance_record removes are seen;
\* a list of its own never changes. clear_maintenance empties the ledger
\* and not the lists: every history held keeps its records and none is
\* shared with the ledger afterwards.
C20_SharedListFollows ==
    [][/\ last'.op = "hold" =>
             \A g \in DOMAIN gear_usage_held' :
                /\ gear_usage_held'[g].shared <=> g \in DOMAIN maintenance_records
                /\ HistoryHeld(g)' = Get(maintenance_records, g)
       /\ last'.op \in {"record_maintenance", "delete_maintenance_record"} =>
             \A g \in DOMAIN gear_usage_held :
                HistoryHeld(g)' = IF gear_usage_held[g].shared
                                  THEN maintenance_records'[g]
                                  ELSE HistoryHeld(g)
       /\ last'.op = "clear_maintenance" =>
             \A g \in DOMAIN gear_usage_held :
                /\ HistoryHeld(g)' = HistoryHeld(g)
                /\ ~gear_usage_held'[g].shared]_vars

\* a second record has just been added, at a later clock reading, to a
\* list that a GearUsage held since before shares with the ledger
C20_Witness ==
    /\ last.op = "record_maintenance"
    /\ \E g \in DOMAIN gear_usage_held :
          /\ gear_usage_held[g].shared
          /\ Len(maintenance_records[g]) = 2
          /\ maintenance_records[g][2].date = MaxTime
          /\ maintenance_records[g][1].date = 0

\* C21. When a sync state exists and the latest activity of the Activity
\* Source is the activity whose id the previous sync stored in
\* sync_state.latest_activity_id, needs_sync returns False and
\* sync_activities changes neither activities_cache nor sync_state.
NothingNew ==
    /\ sync_state # <<>>
    /\ source # <<>>
    /\ sync_state[1].latest_activity_id.v = source[1].id

C21_NothingNewNothingFetched ==
    [][(last'.op = "sync_activities" /\ NothingNew) =>
          /\ ~needs_sync(TRUE)
          /\ activities_cache' = activities_cache
          /\ sync_state' = sync_state]_vars

\* C22. sync_activities changes activities_cache or sync_state only when
\* the local hour is night time (hour >= 20 or hour < 6) and the Activity
\* Source has a new latest activity; at any other hour, with or without a
\* sync state, it returns success and changes neither.
HasNewLatest ==
    /\ source # <<>>
    /\ sync_state = <<>> \/ sync_state[1].latest_activity_id.v # source[1].id

C22_SyncsOnlyAtNight ==
    [][last'.op = "sync_activities" =>
          /\ (activities_cache' # activities_cache \/ sync_state' # sync_state)
                => (IsNight(now) /\ HasNewLatest)
          /\ ~IsNight(now) =>
                /\ last'.ret = TRUE
                /\ activities_cache' = activities_cache
                /\ sync_state' = sync_state]_vars

\* C23. In every state each component's status agrees with the entry most
\* recently appended to the swap ledger for its id ('active' iff that
\* entry's action is 'install', 'retired' iff 'retire', 'in_inventory' iff
\* 'remove'), and every component has such an entry; also after a
\* swap_component call that returned failure.
EntriesOf(id) == {i \in 1 .. Len(component_swaps) : component_swaps[i].component_id = id}

LatestEntryOf(id) ==
    component_swaps[CHOOSE i \in EntriesOf(id) : \A j \in EntriesOf(id) : j <= i]

C23_StatusFollowsLedger ==
    \A id \in DOMAIN components :
       /\ EntriesOf(id) # {}
       /\ components[id].status = "active" <=> LatestEntryOf(id).action = "install"
       /\ components[id].status = "retired" <=> LatestEntryOf(id).action = "retire"
       /\ components[id].status = "in_inventory" <=> LatestEntryOf(id).action = "remove"

\* C24. Between operations, as long as no write to the Record Store has
\* failed, the persisted components and component swaps equal the ones in
\* memory: what a swap_component call that returned failure did is never
\* written, neither by that call nor by the save of a later add_component,
\* swap_component or sync (_update_gear_usage).
Persisted ==
    /\ Loaded(components_file) = components
    /\ Loaded(component_swaps_file) = component_swaps

C24_StoreMirrorsMemory == Persisted

\* C25. In the menu's delete-a-record flow, with two or more records of the
\* active bike listed, entering the number k shown next to a record makes
\* delete_maintenance_record remove that record: the one displayed as k.
C25_DeletesTheDisplayed ==
    [][last'.op = "delete_maintenance_record" =>
          \A g \in Gears, k \in 1 .. MaxHistory :
             LET records == Get(maintenance_records, g) IN
             (/\ DeleteARecord(g, k, "ok")
              /\ Len(records) >= 2
              /\ k <= Len(records))
                 => /\ last'.ret = TRUE
                    /\ maintenance_records'[g]
                           = WithoutIth(records, DisplayOrder(records)[k])]_vars

\* C26. In every state every stored service interval of a gear has its
\* anchor: the maintenance ledger holds a record of the gear whose date is
\* the interval's last_service_date, whatever record_maintenance,
\* delete_maintenance_record, clear_maintenance and add_service_interval
\* did before.
C26_IntervalsKeepAnchor ==
    \A g \in DOMAIN service_intervals :
       \A i \in 1 .. Len(service_intervals[g]) :
          \E j \in 1 .. Len(Get(maintenance_records, g)) :
             maintenance_records[g][j].date
                 = service_intervals[g][i].last_service_date

\* C27. After every sync_activities call that returns success and has
\* replaced sync_state, activities_cache contains the activity whose id is
\* the new sync_state.latest_activity_id, also when the fetch of the
\* activities inside the sync fails or returns only some of the pages.
C27_CacheHoldsLatest ==
    [][(/\ last'.op = "sync_activities"
        /\ last'.ret = TRUE
        /\ "Activity sync completed successfully" \in last'.log) =>
          \E i \in 1 .. Len(activities_cache') :
             activities_cache'[i].id = sync_state'[1].latest_activity_id.v]_vars

\* C28. In every state every entry of the swap ledger names components of
\* the components map: its component_id, and its old_component_id when
\* that is not None, are ids of stored components, whatever add_component,
\* swap_component (successful or failed), clear_components and
\* clear_all_data did before.
C28_LedgerNamesStoredComponents ==
    \A i \in 1 .. Len(component_swaps) :
       /\ component_swaps[i].component_id \in DOMAIN components
       /\ component_swaps[i].old_component_id # NoneId
             => component_swaps[i].old_component_id \in DOMAIN components

\* a swap has just been refused because the part to install is unknown,
\* after it had entered the removal of the old part in the ledger
C28_Witness ==
    /\ last.op = "swap_component"
    /\ last.ret = FALSE
    /\ last.log = {"New component not found"}
    /\ Len(component_swaps) = 2
    /\ component_swaps[2].action = "remove"
    /\ component_swaps[2].component_id \in DOMAIN components

\* C29. With a clock that never goes backwards, in every state reached by
\* record_maintenance and delete_maintenance_record each gear's stored
\* list is in non-decreasing date order, and a record stands in the stored
\* list where it stands in the ascending-by-date list that
\* get_maintenance_history returns without a type filter.
C29_StoredInDateOrder ==
    \A g \in DOMAIN maintenance_records :
       LET records == maintenance_records[g]
           history == get_maintenance_history(g, PyNone)
       IN /\ \A i, j \in 1 .. Len(records) :
                i < j => records[i].date <= records[j].date
          /\ Len(history) = Len(records)
          /\ \A i \in 1 .. Len(records) : history[i] = records[i]

\* the second of three records of a gear has just been deleted; the two
\* that remain differ in date, the earlier one first
C29_Witness ==
    /\ last.op = "delete_maintenance_record"
    /\ last.ret = TRUE
    /\ last.deleted[1] = 2
    /\ LET records == maintenance_records[last.deleted[2]]
       IN /\ Len(records) = 2
          /\ records[1].date = 0
          /\ records[2].date = MaxTime

====
